---- MODULE Spec2Model ----
(***************************************************************************)
(* FAU201Device (fau201device.h / fau201device.cpp, version 1.0.0): the    *)
(* device controller of the FAU201 voltage source, built on the CP2130     *)
(* USB-to-SPI bridge class.                                                *)
(*                                                                         *)
(* The state is the bridge object cp2130_ owned by the controller, the     *)
(* USB units attached to the host, the caller's error accumulator          *)
(* (errcnt, errstr) and a record of the last completed call: its name,     *)
(* argument, return value, the accumulator on entry and the bridge calls   *)
(* it made with that accumulator, in order.                                *)
(*                                                                         *)
(* Representation:                                                         *)
(*  - a voltage is an integer number of 1/5 mV (0.2 mV), so 4.095 V is     *)
(*    4095 * 5; the grid has no value halfway between two millivolts;      *)
(*  - a std::string is the sequence of its ASCII codes;                    *)
(*  - the CP2130 class is not part of the sources: its calls are modelled  *)
(*    by the contract the specification gives for the bridge.              *)
(***************************************************************************)
EXTENDS Integers, Sequences, FiniteSets, TLC

VARIABLES
    units,        \* USB units currently attached to the host
    handle,       \* cp2130_: the unit whose handle is held, or NoHandle
    gone,         \* the unit behind the held handle was unplugged
    disconnected_,\* cp2130_: a transfer found the device unreachable
    errcnt,       \* caller's error count, as left by the last call
    errstr,       \* caller's error log, as left by the last call
    errcnt_in,    \* error count on entry of the last call
    errstr_in,    \* error log on entry of the last call
    pre,          \* handle, gone and units, as they were on entry of the last call
    op,           \* name of the last completed call
    arg,          \* its argument
    ret,          \* its return value
    calls,        \* the accumulator-taking bridge calls (and waits) it made, in order
    config,       \* hardwareRevision check: the USB configuration given
    revision      \* hardwareRevision check: the string returned

vars == <<units, handle, gone, disconnected_, errcnt, errstr, errcnt_in,
          errstr_in, pre, op, arg, ret, calls, config, revision>>

----------------------------------------------------------------------------
(* Bounds of the model *)

\* most errors one bridge call reports into the accumulator
MaxStepErr == 1
\* largest error count the caller passes in
MaxErrIn == 2
\* how far beyond [VOLTAGE_MIN, VOLTAGE_MAX] the voltages tried reach (in 0.2 mV)
OutMargin == 3

----------------------------------------------------------------------------
(* Class definitions *)

VID == 4292      \* 0x10C4
PID == 35910     \* 0x8C46
EPOUT == 1       \* 0x01

CP2130_SUCCESS == "SUCCESS"
CP2130_ERROR_INIT == "ERROR_INIT"
CP2130_ERROR_NOT_FOUND == "ERROR_NOT_FOUND"
CP2130_ERROR_BUSY == "ERROR_BUSY"

SUCCESS == CP2130_SUCCESS
ERROR_INIT == CP2130_ERROR_INIT
ERROR_NOT_FOUND == CP2130_ERROR_NOT_FOUND
ERROR_BUSY == CP2130_ERROR_BUSY

\* resolution of the voltage grid: units per millivolt
UnitsPerMilliVolt == 5
VOLTAGE_MIN == 0
VOLTAGE_MAX == 4095 * UnitsPerMilliVolt

CharA == 65      \* 'A'
Char0 == 48      \* '0', first decimal digit written by operator<<(int)

Byte == 0 .. 255

NoHandle == [vid |-> 0, pid |-> 0, serial |-> ""]
NoMode == [csmode |-> "", cfrq |-> "", cpol |-> "", cpha |-> ""]
NoConfig == [majrel |-> 0, minrel |-> 0]
NoValue == <<"none">>
NA == 0 - 1     \* a field of a call record that does not apply to the call
NoRevision == <<NA>>

----------------------------------------------------------------------------
(* Pure functions *)

RECURSIVE decimal(_)
\* std::ostringstream << int, for a non-negative int
decimal(n) ==
    IF n < 10 THEN <<Char0 + n>>
    ELSE Append(decimal(n \div 10), Char0 + (n % 10))

\* hardwareRevision() with the letter range one too wide (majrel <= 28)
hardwareRevisionUpTo28(cfg) ==
    LET letter == IF cfg.majrel > 1 /\ cfg.majrel <= 28
                  THEN <<(cfg.majrel + CharA - 2) % 256>>
                  ELSE <<>>
        digits == IF cfg.majrel = 1 \/ cfg.minrel # 0
                  THEN decimal(cfg.minrel)
                  ELSE <<>>
    IN  letter \o digits

\* hardwareRevision() appending the number only when both conditions hold
hardwareRevisionBothConditions(cfg) ==
    LET letter == IF cfg.majrel > 1 /\ cfg.majrel <= 27
                  THEN <<(cfg.majrel + CharA - 2) % 256>>
                  ELSE <<>>
        digits == IF cfg.majrel = 1 /\ cfg.minrel # 0
                  THEN decimal(cfg.minrel)
                  ELSE <<>>
    IN  letter \o digits

hardwareRevision(cfg) ==
    LET letter == IF cfg.majrel > 1 /\ cfg.majrel <= 27
                  THEN <<(cfg.majrel + CharA - 2) % 256>>
                  ELSE <<>>
        digits == IF cfg.majrel = 1 \/ cfg.minrel # 0
                  THEN decimal(cfg.minrel)
                  ELSE <<>>
    IN  letter \o digits

\* static_cast<uint16_t>(voltage * 1000 + 0.5): millivolts plus a half, truncated
voltageCode(voltage) ==
    ((2 * voltage + UnitsPerMilliVolt) \div (2 * UnitsPerMilliVolt)) % 65536

\* setVoltage()'s command with the last byte not shifted (voltageCode, not voltageCode << 4)
setCommandLowByteUnshifted(voltageCode_) ==
    << 48, (voltageCode_ \div 16) % 256, voltageCode_ % 256 >>

\* setVoltage()'s command with the first data byte taken as voltageCode >> 8
setCommandHighByteShift8(voltageCode_) ==
    << 48, (voltageCode_ \div 256) % 256, (voltageCode_ * 16) % 256 >>

\* the command written by setVoltage()
setCommand(voltageCode_) ==
    << 48,                              \* 0x30
       (voltageCode_ \div 16) % 256,    \* static_cast<uint8_t>(voltageCode >> 4)
       (voltageCode_ * 16) % 256 >>     \* static_cast<uint8_t>(voltageCode << 4)

\* the command written by setup()
configCommand == <<112, 0, 0>>          \* {0x70, 0x00, 0x00}

----------------------------------------------------------------------------
(* The bridge (class CP2130), by its contract *)

\* the units the model attaches: a FAU201 and a unit of another product
FAU201_S1 == [vid |-> VID, pid |-> PID, serial |-> "S1"]
OTHER_S3 == [vid |-> VID, pid |-> PID + 1, serial |-> "S3"]
UnitUniverse == {FAU201_S1, OTHER_S3}

\* the units CP2130::open(vid, pid, serial) may acquire
matching(vid, pid, serial) ==
    {u \in units : u.vid = vid /\ u.pid = pid /\ (serial = "" \/ u.serial = serial)}

\* CP2130::open(vid, pid, serial): the possible <<status, handle held afterwards>>
CP2130_open(vid, pid, serial) ==
    IF handle # NoHandle
    THEN {<<CP2130_SUCCESS, handle>>}
    ELSE {<<CP2130_ERROR_INIT, NoHandle>>}
         \cup (IF matching(vid, pid, serial) = {}
               THEN {<<CP2130_ERROR_NOT_FOUND, NoHandle>>}
               ELSE {<<CP2130_ERROR_BUSY, NoHandle>>}
                    \cup {<<CP2130_SUCCESS, u>> : u \in matching(vid, pid, serial)})

\* CP2130::isOpen()
CP2130_isOpen == handle # NoHandle

\* CP2130::disconnected()
CP2130_disconnected == disconnected_

\* a handle is held and the unit behind it is still reachable
validHandle == handle # NoHandle /\ ~gone

\* the numbers of errors one bridge call may report: at least one without a
\* valid handle
stepErrs == IF validHandle THEN 0 .. MaxStepErr ELSE 1 .. MaxStepErr

\* CP2130::listDevices(vid, pid, errcnt, errstr): the serials found
CP2130_listDevices(vid, pid) ==
    {u.serial : u \in {x \in units : x.vid = vid /\ x.pid = pid}}

\* one call of the bridge, as the controller issues it
Call(fn, channel, mode, data, endpoint, err) ==
    [fn |-> fn, channel |-> channel, mode |-> mode, data |-> data,
     endpoint |-> endpoint, usec |-> NA, err |-> err]

\* usleep(usec)
usleep(usec) ==
    [fn |-> "usleep", channel |-> NA, mode |-> NoMode, data |-> <<>>,
     endpoint |-> NA, usec |-> usec, err |-> 0]

RECURSIVE errorsOf(_)
\* the errors a sequence of bridge calls adds to errcnt
errorsOf(cs) == IF cs = <<>> THEN 0 ELSE Head(cs).err + errorsOf(Tail(cs))

RECURSIVE messagesOf(_)
\* the messages a sequence of bridge calls appends to errstr, one per error
messagesOf(cs) ==
    IF cs = <<>> THEN <<>>
    ELSE [i \in 1 .. Head(cs).err |-> Head(cs).fn] \o messagesOf(Tail(cs))

----------------------------------------------------------------------------
(* The controller (class FAU201Device) *)

isOpen == CP2130_isOpen

disconnected == CP2130_disconnected

\* the SPI mode setup() configures
setupMode ==
    [csmode |-> "CSMODEPP", cfrq |-> "CFRQ750K", cpol |-> "CPOL0", cpha |-> "CPHA0"]

\* setup() returning as soon as one of its bridge calls reports an error
setupCallsStopAtError(errs) ==
    LET all == << Call("configureSPIMode", 0, setupMode, <<>>, NA, errs[1]),
                  Call("disableSPIDelays", 0, NoMode, <<>>, NA, errs[2]),
                  Call("selectCS", 0, NoMode, <<>>, NA, errs[3]),
                  Call("spiWrite", NA, NoMode, configCommand, EPOUT, errs[4]),
                  usleep(100),
                  Call("disableCS", 0, NoMode, <<>>, NA, errs[5]) >>
        failed == {i \in 1 .. 6 : all[i].err > 0}
    IN  IF failed = {} THEN all
        ELSE SubSeq(all, 1, CHOOSE i \in failed : \A j \in failed : i <= j)

\* the bridge calls of setup(), errs[i] being the errors the i-th call reports
setupCalls(errs) ==
    << Call("configureSPIMode", 0, setupMode, <<>>, NA, errs[1]),
       Call("disableSPIDelays", 0, NoMode, <<>>, NA, errs[2]),
       Call("selectCS", 0, NoMode, <<>>, NA, errs[3]),
       Call("spiWrite", NA, NoMode, configCommand, EPOUT, errs[4]),
       usleep(100),
       Call("disableCS", 0, NoMode, <<>>, NA, errs[5]) >>

\* setVoltage()'s range check without the lower limit
outOfRangeNoMinimum(voltage) == voltage > VOLTAGE_MAX

\* the range check of setVoltage()
outOfRange(voltage) == voltage < VOLTAGE_MIN \/ voltage > VOLTAGE_MAX

setVoltageMessage == "In setVoltage(): Voltage must be between 0 and 4.095.\n"

\* setVoltage() leaving as soon as the write reports an error, the chip select
\* still enabled
setVoltageCallsStopAtWriteError(voltage, errs) ==
    LET all == << Call("selectCS", 0, NoMode, <<>>, NA, errs[1]),
                  Call("spiWrite", NA, NoMode, setCommand(voltageCode(voltage)), EPOUT, errs[2]),
                  usleep(100),
                  Call("disableCS", 0, NoMode, <<>>, NA, errs[3]) >>
    IN  IF errs[2] > 0 THEN SubSeq(all, 1, 2) ELSE all

\* the bridge calls of setVoltage() for a voltage in range
setVoltageCalls(voltage, errs) ==
    << Call("selectCS", 0, NoMode, <<>>, NA, errs[1]),
       Call("spiWrite", NA, NoMode, setCommand(voltageCode(voltage)), EPOUT, errs[2]),
       usleep(100),
       Call("disableCS", 0, NoMode, <<>>, NA, errs[3]) >>

\* what every call leaves behind: the record of the call and the accumulator
\* acc the caller passed, advanced by `logic` messages of the controller and
\* by the errors of the bridge calls cs
Return(name, a, r, acc, logic, cs) ==
    /\ op' = name
    /\ arg' = a
    /\ ret' = r
    /\ calls' = cs
    /\ pre' = [handle |-> handle, gone |-> gone, units |-> units]
    /\ errcnt_in' = acc.cnt
    /\ errstr_in' = acc.str
    /\ errcnt' = acc.cnt + Len(logic) + errorsOf(cs)
    /\ errstr' = acc.str \o logic \o messagesOf(cs)
    /\ disconnected_' = (disconnected_ \/ (cs # <<>> /\ handle # NoHandle /\ gone))

setup(acc, errs) ==
    /\ Return("setup", NoValue, NoValue, acc, <<>>, setupCalls(errs))
    /\ UNCHANGED <<units, handle, gone, config, revision>>

\* setVoltage() returning silently when the device is not open
setVoltageSilentWhenClosed(voltage, acc, errs) ==
    /\ IF outOfRange(voltage)
       THEN Return("setVoltage", voltage, NoValue, acc, <<setVoltageMessage>>, <<>>)
       ELSE IF ~isOpen
       THEN Return("setVoltage", voltage, NoValue, acc, <<>>, <<>>)
       ELSE Return("setVoltage", voltage, NoValue, acc, <<>>,
                   setVoltageCalls(voltage, errs))
    /\ UNCHANGED <<units, handle, gone, config, revision>>

setVoltage(voltage, acc, errs) ==
    /\ IF outOfRange(voltage)
       THEN Return("setVoltage", voltage, NoValue, acc, <<setVoltageMessage>>, <<>>)
       ELSE Return("setVoltage", voltage, NoValue, acc, <<>>,
                   setVoltageCalls(voltage, errs))
    /\ UNCHANGED <<units, handle, gone, config, revision>>

\* a pass-through call of the bridge that takes the accumulator only
query(fn, err) == Call(fn, NA, NoMode, <<>>, NA, err)

getCP2130SiliconVersion(acc, err) ==
    /\ Return("getCP2130SiliconVersion", NoValue, <<"CP2130", "getSiliconVersion">>,
              acc, <<>>, <<query("getSiliconVersion", err)>>)
    /\ UNCHANGED <<units, handle, gone, config, revision>>

getManufacturerDesc(acc, err) ==
    /\ Return("getManufacturerDesc", NoValue, <<"CP2130", "getManufacturerDesc">>,
              acc, <<>>, <<query("getManufacturerDesc", err)>>)
    /\ UNCHANGED <<units, handle, gone, config, revision>>

getProductDesc(acc, err) ==
    /\ Return("getProductDesc", NoValue, <<"CP2130", "getProductDesc">>,
              acc, <<>>, <<query("getProductDesc", err)>>)
    /\ UNCHANGED <<units, handle, gone, config, revision>>

getSerialDesc(acc, err) ==
    /\ Return("getSerialDesc", NoValue, <<"CP2130", "getSerialDesc">>,
              acc, <<>>, <<query("getSerialDesc", err)>>)
    /\ UNCHANGED <<units, handle, gone, config, revision>>

\* cfg is the USB configuration the bridge returns
getUSBConfig(acc, err, cfg) ==
    /\ Return("getUSBConfig", NoValue, cfg, acc, <<>>, <<query("getUSBConfig", err)>>)
    /\ UNCHANGED <<units, handle, gone, config, revision>>

getHardwareRevision(acc, err, cfg) ==
    /\ Return("getHardwareRevision", NoValue, hardwareRevision(cfg), acc, <<>>,
              <<query("getUSBConfig", err)>>)
    /\ UNCHANGED <<units, handle, gone, config, revision>>

reset(acc, err) ==
    /\ Return("reset", NoValue, NoValue, acc, <<>>, <<query("reset", err)>>)
    /\ UNCHANGED <<units, handle, gone, config, revision>>

\* static: needs no handle, so its errors do not depend on one
listDevices(acc, err) ==
    /\ op' = "listDevices"
    /\ arg' = NoValue
    /\ ret' = CP2130_listDevices(VID, PID)
    /\ calls' = <<query("listDevices", err)>>
    /\ pre' = [handle |-> handle, gone |-> gone, units |-> units]
    /\ errcnt_in' = acc.cnt
    /\ errstr_in' = acc.str
    /\ errcnt' = acc.cnt + err
    /\ errstr' = acc.str \o [i \in 1 .. err |-> "listDevices"]
    /\ UNCHANGED <<units, handle, gone, disconnected_, config, revision>>

\* open() not passing the serial number on to the bridge
openAnySerial(serial) ==
    \E result \in CP2130_open(VID, PID, "") :
        /\ op' = "open"
        /\ arg' = serial
        /\ ret' = result[1]
        /\ calls' = <<>>
        /\ pre' = [handle |-> handle, gone |-> gone, units |-> units]
        /\ handle' = result[2]
        /\ disconnected_' = (disconnected_ /\ handle # NoHandle)
        /\ errcnt_in' = errcnt
        /\ errstr_in' = errstr
        /\ UNCHANGED <<units, gone, errcnt, errstr, config, revision>>

open(serial) ==
    \E result \in CP2130_open(VID, PID, serial) :
        /\ op' = "open"
            /\ arg' = serial
        /\ ret' = result[1]
        /\ calls' = <<>>
        /\ pre' = [handle |-> handle, gone |-> gone, units |-> units]
        /\ handle' = result[2]
        /\ disconnected_' = (disconnected_ /\ handle # NoHandle)
        /\ errcnt_in' = errcnt
        /\ errstr_in' = errstr
        /\ UNCHANGED <<units, gone, errcnt, errstr, config, revision>>

\* close() not passing the call on to the bridge
closeNothing ==
    /\ op' = "close"
    /\ arg' = NoValue
    /\ ret' = NoValue
    /\ calls' = <<>>
    /\ pre' = [handle |-> handle, gone |-> gone, units |-> units]
    /\ errcnt_in' = errcnt
    /\ errstr_in' = errstr
    /\ UNCHANGED <<units, handle, gone, disconnected_, errcnt, errstr, config, revision>>

close ==
    /\ op' = "close"
    /\ arg' = NoValue
    /\ ret' = NoValue
    /\ calls' = <<>>
    /\ pre' = [handle |-> handle, gone |-> gone, units |-> units]
    /\ handle' = NoHandle
    /\ gone' = FALSE
    /\ errcnt_in' = errcnt
    /\ errstr_in' = errstr
    /\ UNCHANGED <<units, disconnected_, errcnt, errstr, config, revision>>

----------------------------------------------------------------------------
(* The host: units are plugged and unplugged between the calls *)

Plug(u) ==
    /\ u \notin units
    /\ units' = units \cup {u}
    /\ UNCHANGED <<handle, gone, disconnected_, errcnt, errstr, errcnt_in,
                   errstr_in, pre, op, arg, ret, calls, config, revision>>

Unplug(u) ==
    /\ u \in units
    /\ units' = units \ {u}
    /\ gone' = (gone \/ handle = u)
    /\ UNCHANGED <<handle, disconnected_, errcnt, errstr, errcnt_in,
                   errstr_in, pre, op, arg, ret, calls, config, revision>>

----------------------------------------------------------------------------
(* The calls tried *)

Serials == {"", "S1", "S3"}

\* the accumulators the caller passes in
EntryAccs ==
    {[cnt |-> n, str |-> [i \in 1 .. n |-> "earlier"]] : n \in 0 .. MaxErrIn}

\* voltages around every boundary of the range check and of the byte packing
SampleVoltages ==
    {0 - OutMargin, 0 - 1, 0, 1, 2, 3, 5,
     15 * UnitsPerMilliVolt, 16 * UnitsPerMilliVolt, 17 * UnitsPerMilliVolt,
     255 * UnitsPerMilliVolt, 256 * UnitsPerMilliVolt, 2730 * UnitsPerMilliVolt,
     VOLTAGE_MAX - UnitsPerMilliVolt, VOLTAGE_MAX - 1, VOLTAGE_MAX,
     VOLTAGE_MAX + 1, VOLTAGE_MAX + OutMargin}

\* every voltage of the grid from below the range to above it
AllVoltages == (VOLTAGE_MIN - OutMargin) .. (VOLTAGE_MAX + OutMargin)

SampleConfigs ==
    {[majrel |-> a, minrel |-> b] : a \in {1, 2, 28}, b \in {0, 5}}

AllConfigs == [majrel : Byte, minrel : Byte]

----------------------------------------------------------------------------------------------------------------------------------------
(* The life cycle: units come and go, the controller is opened, queried,   *)
(* reset and closed, in any order. The other hardware calls change the     *)
(* state in no other way than these and are tried in SpecCall.             *)

Init ==
    /\ units \in SUBSET UnitUniverse
    /\ handle = NoHandle
    /\ gone = FALSE
    /\ disconnected_ = FALSE
    /\ errcnt = 0
    /\ errstr = <<>>
    /\ errcnt_in = 0
    /\ errstr_in = <<>>
    /\ pre = [handle |-> NoHandle, gone |-> FALSE, units |-> {}]
    /\ op = "none"
    /\ arg = NoValue
    /\ ret = NoValue
    /\ calls = <<>>
    /\ config = NoConfig
    /\ revision = NoRevision

Next ==
    \/ \E u \in UnitUniverse : Plug(u)
    \/ \E u \in UnitUniverse : Unplug(u)
    \/ \E serial \in Serials : open(serial)
    \/ close
    \/ \E acc \in EntryAccs, err \in stepErrs : reset(acc, err)
    \/ \E acc \in EntryAccs, err \in stepErrs : getSerialDesc(acc, err)
    \/ \E acc \in EntryAccs, err \in 0 .. MaxStepErr : listDevices(acc, err)

Spec == Init /\ [][Next]_vars

----------------------------------------------------------------------------
(* One hardware call, made in each state of the handle the life cycle      *)
(* reaches, with every outcome of its bridge calls                         *)

\* never opened; open; open with the unit unplugged, before and after a
\* transfer noticed it; closed again after that
HandleStates ==
    {[units |-> {FAU201_S1}, handle |-> NoHandle, gone |-> FALSE, disc |-> FALSE, op |-> "none"],
     [units |-> {FAU201_S1}, handle |-> FAU201_S1, gone |-> FALSE, disc |-> FALSE, op |-> "open"],
     [units |-> {}, handle |-> FAU201_S1, gone |-> TRUE, disc |-> FALSE, op |-> "open"],
     [units |-> {}, handle |-> FAU201_S1, gone |-> TRUE, disc |-> TRUE, op |-> "open"],
     [units |-> {}, handle |-> NoHandle, gone |-> FALSE, disc |-> TRUE, op |-> "close"]}

InitCall ==
    \E h \in HandleStates :
        /\ units = h.units
        /\ handle = h.handle
        /\ gone = h.gone
        /\ disconnected_ = h.disc
        /\ errcnt = 0
        /\ errstr = <<>>
        /\ errcnt_in = 0
        /\ errstr_in = <<>>
        /\ pre = [handle |-> NoHandle, gone |-> FALSE, units |-> {}]
        /\ op = h.op
        /\ arg = NoValue
        /\ ret = NoValue
        /\ calls = <<>>
        /\ config = NoConfig
        /\ revision = NoRevision

\* no hardware call was made yet
firstCall == op \in {"none", "open", "close"}

NextCall ==
    /\ firstCall
    /\ \/ \E acc \in EntryAccs, errs \in [1 .. 5 -> stepErrs] : setup(acc, errs)
       \/ \E voltage \in SampleVoltages, acc \in EntryAccs, errs \in [1 .. 3 -> stepErrs] :
             setVoltage(voltage, acc, errs)
       \/ \E acc \in EntryAccs, err \in stepErrs : reset(acc, err)
       \/ \E acc \in EntryAccs, err \in stepErrs : getCP2130SiliconVersion(acc, err)
       \/ \E acc \in EntryAccs, err \in stepErrs : getManufacturerDesc(acc, err)
       \/ \E acc \in EntryAccs, err \in stepErrs : getProductDesc(acc, err)
       \/ \E acc \in EntryAccs, err \in stepErrs : getSerialDesc(acc, err)
       \/ \E acc \in EntryAccs, err \in stepErrs, cfg \in SampleConfigs :
             getUSBConfig(acc, err, cfg)
       \/ \E acc \in EntryAccs, err \in stepErrs, cfg \in SampleConfigs :
             getHardwareRevision(acc, err, cfg)

SpecCall == InitCall /\ [][NextCall]_vars

----------------------------------------------------------------------------
(* setVoltage() over the whole voltage grid, on an open device *)

InitVolt ==
    /\ units = {FAU201_S1}
    /\ handle = FAU201_S1
    /\ gone = FALSE
    /\ disconnected_ = FALSE
    /\ errcnt = 0
    /\ errstr = <<>>
    /\ errcnt_in = 0
    /\ errstr_in = <<>>
    /\ pre = [handle |-> NoHandle, gone |-> FALSE, units |-> {}]
    /\ op = "open"
    /\ arg = NoValue
    /\ ret = NoValue
    /\ calls = <<>>
    /\ config = NoConfig
    /\ revision = NoRevision

NextVolt ==
    /\ firstCall
    /\ \E voltage \in AllVoltages, errs \in [1 .. 3 -> stepErrs] :
          setVoltage(voltage, [cnt |-> 0, str |-> <<>>], errs)

SpecVolt == InitVolt /\ [][NextVolt]_vars

----------------------------------------------------------------------------
(* hardwareRevision() over every major and minor release number *)

applyHardwareRevision ==
    /\ revision = NoRevision
    /\ revision' = hardwareRevision(config)
    /\ UNCHANGED <<units, handle, gone, disconnected_, errcnt, errstr, errcnt_in,
                   errstr_in, pre, op, arg, ret, calls, config>>

InitRev ==
    /\ units = {}
    /\ handle = NoHandle
    /\ gone = FALSE
    /\ disconnected_ = FALSE
    /\ errcnt = 0
    /\ errstr = <<>>
    /\ errcnt_in = 0
    /\ errstr_in = <<>>
    /\ pre = [handle |-> NoHandle, gone |-> FALSE, units |-> {}]
    /\ op = "none"
    /\ arg = NoValue
    /\ ret = NoValue
    /\ calls = <<>>
    /\ config \in AllConfigs
    /\ revision = NoRevision

NextRev == applyHardwareRevision

SpecRev == InitRev /\ [][NextRev]_vars

----------------------------------------------------------------------------
(* Properties *)

\* a call as the bridge sees it, whatever it reported
issued(c) == [c EXCEPT !.err = 0]

\* the same, whatever it carried
issuedKind(c) == [c EXCEPT !.err = 0, !.data = <<>>]

isSpiWrite(c) == c.fn = "spiWrite"

isChipSelect(c) == c.fn \in {"selectCS", "disableCS"}

\* x & 0xF0, for x >= 0
and0xF0(x) == (x % 256) - (x % 16)

\* the voltage is one of the millivolt grid within [0, 4.095]
onMillivoltGrid(v) ==
    v >= 0 /\ v <= 4095 * UnitsPerMilliVolt /\ v % UnitsPerMilliVolt = 0

\* C1: for every voltage below 0 or above 4.095, setVoltage() makes no bridge
\* call at all, increases the error count by exactly 1 and appends one
\* message to the error log.
C1_OutOfRangeRejected ==
    (op = "setVoltage" /\ (arg < 0 \/ arg > 4095 * UnitsPerMilliVolt))
        => /\ calls = <<>>
           /\ errcnt = errcnt_in + 1
           /\ Len(errstr) = Len(errstr_in) + 1
           /\ SubSeq(errstr, 1, Len(errstr_in)) = errstr_in

\* a voltage just above 4.095 was rejected, tried without a valid handle and
\* with errors already counted
C1_Witness ==
    /\ op = "setVoltage"
    /\ arg = 4095 * UnitsPerMilliVolt + 1
    /\ pre.handle = NoHandle
    /\ errcnt_in > 0
    /\ errcnt = errcnt_in + 1
    /\ calls = <<>>

\* C2: for every voltage of the millivolt grid in [0, 4.095], code being its
\* number of millivolts, setVoltage() issues exactly one SPI write, of the 3
\* bytes 0x30, code >> 4 and (code << 4) mod 256, to endpoint 0x01; the low
\* nibble of the third byte is zero and the two data bytes form code * 16.
C2_OneWriteOfTheCode ==
    (op = "setVoltage" /\ onMillivoltGrid(arg))
        => LET code == arg \div UnitsPerMilliVolt
               writes == SelectSeq(calls, isSpiWrite)
           IN  /\ Len(writes) = 1
               /\ writes[1].endpoint = 1
               /\ Len(writes[1].data) = 3
               /\ writes[1].data[1] = 48
               /\ writes[1].data[2] = code \div 16
               /\ writes[1].data[3] = (code * 16) % 256
               /\ writes[1].data[3] % 16 = 0
               /\ (writes[1].data[2] * 256) + writes[1].data[3] = code * 16

\* 2.731 V was set: code 2731 = 0xAAB, written as 0x30 0xAA 0xB0
C2_Witness ==
    /\ op = "setVoltage"
    /\ arg = 2731 * UnitsPerMilliVolt
    /\ Len(calls) = 4
    /\ calls[2].data = <<48, 170, 176>>

\* C3: every call of setup() makes exactly these six steps on channel 0, each
\* once and in this order: configure the SPI mode (push-pull CS, 750 kHz,
\* CPOL 0, CPHA 0), disable the SPI delays, select the chip select, write
\* {0x70, 0x00, 0x00} to endpoint 0x01, wait 100 microseconds, disable the chip
\* select; whatever steps report an error and whatever the error count on entry.
C3_SetupSixSteps ==
    op = "setup"
        => /\ Len(calls) = 6
           /\ [i \in 1 .. 6 |-> issued(calls[i])] =
                << [fn |-> "configureSPIMode", channel |-> 0,
                    mode |-> [csmode |-> "CSMODEPP", cfrq |-> "CFRQ750K",
                              cpol |-> "CPOL0", cpha |-> "CPHA0"],
                    data |-> <<>>, endpoint |-> NA, usec |-> NA, err |-> 0],
                   [fn |-> "disableSPIDelays", channel |-> 0, mode |-> NoMode,
                    data |-> <<>>, endpoint |-> NA, usec |-> NA, err |-> 0],
                   [fn |-> "selectCS", channel |-> 0, mode |-> NoMode,
                    data |-> <<>>, endpoint |-> NA, usec |-> NA, err |-> 0],
                   [fn |-> "spiWrite", channel |-> NA, mode |-> NoMode,
                    data |-> <<112, 0, 0>>, endpoint |-> 1, usec |-> NA, err |-> 0],
                   [fn |-> "usleep", channel |-> NA, mode |-> NoMode,
                    data |-> <<>>, endpoint |-> NA, usec |-> 100, err |-> 0],
                   [fn |-> "disableCS", channel |-> 0, mode |-> NoMode,
                    data |-> <<>>, endpoint |-> NA, usec |-> NA, err |-> 0] >>

\* setup() ran to its end although its first step reported an error and the
\* later ones did not all, with errors already counted on entry
C3_Witness ==
    /\ op = "setup"
    /\ errcnt_in > 0
    /\ calls[1].err > 0
    /\ calls[4].err = 0
    /\ calls[6].fn = "disableCS"

\* C4 as stated: hardwareRevision is pure and total and returns "1" for majrel
\* 1, minrel 0; "A" for 2, 0; "A5" for 2, 5; "13" for 1, 3; "" for 28, 0.
C4_AsStated ==
    /\ revision = NoRevision => ENABLED applyHardwareRevision
    /\ revision # NoRevision =>
          /\ (config.majrel = 1 /\ config.minrel = 0) => revision = <<49>>
          /\ (config.majrel = 2 /\ config.minrel = 0) => revision = <<65>>
          /\ (config.majrel = 2 /\ config.minrel = 5) => revision = <<65, 53>>
          /\ (config.majrel = 1 /\ config.minrel = 3) => revision = <<49, 51>>
          /\ (config.majrel = 28 /\ config.minrel = 0) => revision = <<>>

\* C4, amended: hardwareRevision is pure and total and returns "0" for majrel
\* 1, minrel 0; "A" for 2, 0; "A5" for 2, 5; "3" for 1, 3; "" for 28, 0.
C4_RevisionExamples ==
    /\ revision = NoRevision => ENABLED applyHardwareRevision
    /\ revision # NoRevision =>
          /\ (config.majrel = 1 /\ config.minrel = 0) => revision = <<48>>
          /\ (config.majrel = 2 /\ config.minrel = 0) => revision = <<65>>
          /\ (config.majrel = 2 /\ config.minrel = 5) => revision = <<65, 53>>
          /\ (config.majrel = 1 /\ config.minrel = 3) => revision = <<51>>
          /\ (config.majrel = 28 /\ config.minrel = 0) => revision = <<>>

\* the revision of majrel 1, minrel 3 was computed and is "3"
C4_Witness ==
    /\ config.majrel = 1
    /\ config.minrel = 3
    /\ revision = <<51>>

\* the decimal form of a number below 1000, digit by digit
decimalForm(n) ==
    IF n < 10 THEN <<48 + n>>
    ELSE IF n < 100 THEN <<48 + (n \div 10), 48 + (n % 10)>>
    ELSE <<48 + (n \div 100), 48 + ((n \div 10) % 10), 48 + (n % 10)>>

\* C5: for every majrel and minrel in 0..255, hardwareRevision returns a letter
\* part followed by a digit part: the letter 'A' + (majrel - 2) when
\* 1 < majrel <= 27, else nothing; the decimal form of minrel when majrel = 1
\* or minrel # 0, else nothing. The result is empty exactly when minrel = 0
\* and majrel is 0 or greater than 27.
C5_RevisionFormat ==
    revision # NoRevision =>
        LET letterPart == IF 1 < config.majrel /\ config.majrel <= 27
                          THEN <<65 + (config.majrel - 2)>> ELSE <<>>
            digitPart == IF config.majrel = 1 \/ config.minrel # 0
                         THEN decimalForm(config.minrel) ELSE <<>>
        IN  /\ revision = letterPart \o digitPart
            /\ (revision = <<>>) <=>
                  (config.minrel = 0 /\ (config.majrel = 0 \/ config.majrel > 27))

\* the revision of majrel 27, minrel 255 was computed: "Z255"
C5_Witness ==
    /\ config.majrel = 27
    /\ config.minrel = 255
    /\ revision = <<90, 50, 53, 53>>

\* C6: close() is safe in every state: it reports no error, isOpen() is false
\* after it, and a close() that follows a close() leaves the state as the
\* first left it.
C6_CloseSafe ==
    [][close =>
          /\ ~isOpen'
          /\ errcnt' = errcnt
          /\ errstr' = errstr
          /\ op = "close" =>
                <<units, handle, gone, disconnected_>>' = <<units, handle, gone, disconnected_>>
      ]_vars

\* close() was called with no handle held and errors in the accumulator
C6_Witness ==
    /\ op = "close"
    /\ pre.handle = NoHandle
    /\ ~isOpen
    /\ errcnt > 0

\* a unit of the fixed identity, with the serial asked for if any, was attached
\* when the call was made
unitAttached(serial) ==
    \E u \in pre.units :
        u.vid = 4292 /\ u.pid = 35910 /\ (serial = "" \/ u.serial = serial)

\* C7 as stated: open() returns one of the four status codes; isOpen() is true
\* after open() only if it returned success; when no unit of the fixed identity
\* (and the given serial) is attached, it returns not-found and isOpen()
\* stays false.
C7_AsStated ==
    op = "open" =>
        /\ ret \in {"SUCCESS", "ERROR_INIT", "ERROR_NOT_FOUND", "ERROR_BUSY"}
        /\ isOpen => ret = "SUCCESS"
        /\ (pre.handle = NoHandle /\ ~unitAttached(arg))
              => (ret = "ERROR_NOT_FOUND" /\ ~isOpen)

\* C7, amended: open() returns one of the four status codes; isOpen() is true
\* after open() only if it returned success; when no unit of the fixed identity
\* (and the given serial) is attached, it returns not-found, or initialization
\* failure when the transport layer could not start, and isOpen() stays false.
C7_OpenStatus ==
    op = "open" =>
        /\ ret \in {"SUCCESS", "ERROR_INIT", "ERROR_NOT_FOUND", "ERROR_BUSY"}
        /\ isOpen => ret = "SUCCESS"
        /\ (pre.handle = NoHandle /\ ~unitAttached(arg))
              => (ret \in {"ERROR_NOT_FOUND", "ERROR_INIT"} /\ ~isOpen)

\* open() was asked for a serial no attached FAU201 has, while another FAU201
\* was attached, and returned not-found
C7_Witness ==
    /\ op = "open"
    /\ arg = "S3"
    /\ FAU201_S1 \in pre.units
    /\ ret = "ERROR_NOT_FOUND"
    /\ ~isOpen

hardwareCalls ==
    {"setVoltage", "setup", "reset", "getCP2130SiliconVersion", "getManufacturerDesc",
     "getProductDesc", "getSerialDesc", "getUSBConfig", "getHardwareRevision"}

\* C8: a hardware call (setVoltage() with a voltage in range, setup(), reset()
\* or a query) made while no valid handle is held (never opened, closed, or
\* the device disconnected) returns with the error count greater than it was
\* on entry.
C8_NoHandleReported ==
    (/\ op \in hardwareCalls
     /\ pre.handle = NoHandle \/ pre.gone
     /\ op = "setVoltage" => (arg >= 0 /\ arg <= 4095 * UnitsPerMilliVolt))
        => errcnt > errcnt_in

\* setVoltage() was called with a voltage in range on a controller never opened
C8_Witness ==
    /\ op = "setVoltage"
    /\ arg = 4095 * UnitsPerMilliVolt
    /\ pre.handle = NoHandle
    /\ errcnt > errcnt_in

\* C9: for every code in 0..4095, the pair (code >> 4, (code << 4) & 0xF0),
\* put together again as (byte0 << 4) | (byte1 >> 4), gives the code; both
\* values fit in 8 bits, so the bytes setVoltage() writes lose no bit of it.
C9_PackingRoundTrip ==
    (op = "setVoltage" /\ onMillivoltGrid(arg))
        => LET code == arg \div UnitsPerMilliVolt
               byte0 == calls[2].data[2]
               byte1 == calls[2].data[3]
           IN  /\ byte0 = code \div 16
               /\ byte1 = and0xF0(code * 16)
               /\ byte0 \in Byte /\ byte1 \in Byte
               /\ code \div 16 < 256
               /\ (byte0 * 16) + (byte1 \div 16) = code

\* the largest code, 4095 = 0xFFF, was written as 0xFF 0xF0
C9_Witness ==
    /\ op = "setVoltage"
    /\ arg = 4095 * UnitsPerMilliVolt
    /\ calls[2].data[2] = 255
    /\ calls[2].data[3] = 240

====
